---------------------------- MODULE Spec2Model ----------------------------
(***************************************************************************)
(* A model of docs/fasm-ebook/serve.py: a static file server built on      *)
(* http.server.SimpleHTTPRequestHandler and socketserver.TCPServer, with   *)
(* two overrides (end_headers, guess_type) and a main block that prints a  *)
(* banner, binds port 8000, serves until interrupted and exits.            *)
(*                                                                         *)
(* The inherited behaviour (send_head, send_error, list_directory, the     *)
(* serve_forever loop) is modelled as CPython 3.11 implements it; requests *)
(* are well-formed HTTP/1.x requests with normalised paths and no query.   *)
(***************************************************************************)
EXTENDS Integers, Sequences, FiniteSets, TLC

(***************************************************************************)
(* Bounds of the model.                                                    *)
(***************************************************************************)
\* connections that arrive over a run
MaxConns == 3
\* length of the generated path stems of GuessSpec
MaxStemLen == 2

(***************************************************************************)
(* Program constants.                                                      *)
(***************************************************************************)
PORT == 8000
ebook_dir == "/repo/docs/fasm-ebook"

(***************************************************************************)
(* Strings, as Python's str methods compute on them.                       *)
(***************************************************************************)
CharAt(s, i) == SubSeq(s, i, i)

\* str.endswith
EndsWith(s, suffix) ==
    /\ Len(s) >= Len(suffix)
    /\ SubSeq(s, Len(s) - Len(suffix) + 1, Len(s)) = suffix

\* str.rfind, 1-based, 0 when absent
RFind(s, ch) ==
    LET hits == {i \in 1..Len(s) : CharAt(s, i) = ch}
    IN  IF hits = {} THEN 0 ELSE CHOOSE i \in hits : \A j \in hits : j <= i

UpperLetters == "ABCDEFGHIJKLMNOPQRSTUVWXYZ"
LowerLetters == "abcdefghijklmnopqrstuvwxyz"

\* the lower-case letter of each upper-case letter
LowerTable ==
    [u \in {CharAt(UpperLetters, i) : i \in 1..Len(UpperLetters)} |->
        CharAt(LowerLetters, CHOOSE i \in 1..Len(UpperLetters) :
                                 CharAt(UpperLetters, i) = u)]

LowerChar(c) == IF c \in DOMAIN LowerTable THEN LowerTable[c] ELSE c

\* str.lower
RECURSIVE Lower(_)
Lower(s) == IF s = "" THEN "" ELSE LowerChar(CharAt(s, 1)) \o Lower(Tail(s))

\* posixpath.splitext(path)[1]: the extension starts at the last dot of the
\* last component, unless that component has only leading dots before it
SplitExt(path) ==
    LET sepIndex == RFind(path, "/")
        dotIndex == RFind(path, ".")
    IN  IF /\ dotIndex > sepIndex
           /\ \E i \in (sepIndex + 1)..(dotIndex - 1) : CharAt(path, i) # "."
        THEN SubSeq(path, dotIndex, Len(path))
        ELSE ""

(***************************************************************************)
(* The default extension-to-MIME lookup: the handler's extensions_map,     *)
(* then the platform's mimetypes table, then application/octet-stream.     *)
(* The mimetypes table depends on the platform; the model draws it from    *)
(* MimeTables.                                                             *)
(***************************************************************************)
extensions_map ==
    (".gz" :> "application/gzip") @@ (".Z" :> "application/octet-stream")

\* CPython 3.11's built-in table, restricted to the extensions used here
ModernTypes ==
    (".md" :> "text/markdown") @@ (".json" :> "application/json") @@
    (".html" :> "text/html") @@ (".png" :> "image/png") @@
    (".txt" :> "text/plain")

\* a platform whose table has no Markdown entry and another JSON type
LegacyTypes ==
    (".json" :> "text/x-json") @@ (".html" :> "text/html") @@
    (".png" :> "image/png") @@ (".txt" :> "text/plain")

MimeTables == {ModernTypes, LegacyTypes}

\* mimetypes.guess_type(path)[0], "" for None: exact extension, then lowercase
MimeGuess(table, path) ==
    LET ext == SplitExt(path)
    IN  IF ext \in DOMAIN table THEN table[ext]
        ELSE IF Lower(ext) \in DOMAIN table THEN table[Lower(ext)]
        ELSE ""

\* SimpleHTTPRequestHandler.guess_type, reached through super().guess_type
DefaultGuessType(table, path) ==
    LET ext == SplitExt(path)
    IN  IF ext \in DOMAIN extensions_map THEN extensions_map[ext]
        ELSE IF Lower(ext) \in DOMAIN extensions_map
             THEN extensions_map[Lower(ext)]
        ELSE IF MimeGuess(table, path) # "" THEN MimeGuess(table, path)
        ELSE "application/octet-stream"

\* a guess_type whose suffix tests ignore case
guess_type_nocase(table, path) ==
    LET mimetype == DefaultGuessType(table, path)
    IN  IF EndsWith(Lower(path), ".md") THEN "text/markdown"
        ELSE IF EndsWith(Lower(path), ".json") THEN "application/json"
        ELSE mimetype

\* a guess_type without the override: the default guess, whatever the suffix
guess_type_inherited(table, path) == DefaultGuessType(table, path)

\* MyHTTPRequestHandler.guess_type
guess_type(table, path) ==
    LET mimetype == DefaultGuessType(table, path)
    IN  IF EndsWith(path, ".md") THEN "text/markdown"
        ELSE IF EndsWith(path, ".json") THEN "application/json"
        ELSE mimetype

(***************************************************************************)
(* The content root: the tree under ebook_dir, which the program only      *)
(* reads.  Keys are paths relative to the root without a trailing slash.   *)
(***************************************************************************)
File(text) == [kind |-> "file", readable |-> TRUE, content |-> text, mtime |-> 2]
Dir == [kind |-> "dir", readable |-> TRUE, content |-> "", mtime |-> 2]
Absent == [kind |-> "none", readable |-> FALSE, content |-> "", mtime |-> 0]

Tree ==
    ("" :> Dir) @@
    ("/index.html" :> File("<html>book</html>")) @@
    ("/README.md" :> File("# Hello")) @@
    ("/data.json" :> File("{\"a\":1}")) @@
    ("/pic.png" :> File("PNG")) @@
    ("/NOTES.MD" :> File("NOTES")) @@
    ("/log.jsonl" :> File("{}{}")) @@
    ("/secret.md" :> [File("hidden") EXCEPT !.readable = FALSE]) @@
    ("/chapters" :> Dir) @@
    ("/chapters/ch1.md" :> File("# One")) @@
    ("/guide.md" :> Dir) @@
    ("/guide.md/index.html" :> File("<html>guide</html>")) @@
    ("/private" :> [Dir EXCEPT !.readable = FALSE])

\* request targets: files, directories with and without the slash, a file
\* with a trailing slash, and paths that do not exist
RequestPaths ==
    {"/", "/README.md", "/data.json", "/pic.png", "/NOTES.MD", "/log.jsonl",
     "/secret.md", "/chapters", "/chapters/", "/guide.md", "/guide.md/",
     "/private/", "/README.md/", "/missing.txt", "/gone.md"}

Methods == {"GET", "HEAD", "POST", "OPTIONS"}

\* a request: ims is the If-Modified-Since time, 0 when the header is absent
Requests == [method : Methods, path : RequestPaths, ims : 0..2]
NoRequest == [method |-> "", path |-> "", ims |-> 0]

\* translate_path: the request path under the working directory (the
\* content root, after os.chdir), a trailing slash kept
translate_path(path) == ebook_dir \o path

StripSlash(s) == IF s # "" /\ EndsWith(s, "/") THEN SubSeq(s, 1, Len(s) - 1) ELSE s

\* os.stat on a path produced by translate_path
Stat(fspath) ==
    LET rel == StripSlash(SubSeq(fspath, Len(ebook_dir) + 1, Len(fspath)))
    IN  IF rel \in DOMAIN Tree THEN Tree[rel] ELSE Absent

isdir(fspath) == Stat(fspath).kind = "dir"
isfile(fspath) == Stat(fspath).kind = "file"
\* open(path, 'rb') succeeds
CanOpen(fspath) == isfile(fspath) /\ Stat(fspath).readable /\ ~EndsWith(fspath, "/")

(***************************************************************************)
(* Response construction.  A response under construction is a status and   *)
(* the header lines buffered so far, in order.                             *)
(***************************************************************************)
ACAO == <<"Access-Control-Allow-Origin", "*">>
ACAM == <<"Access-Control-Allow-Methods", "GET, POST, OPTIONS">>
ACAH == <<"Access-Control-Allow-Headers", "Content-Type">>
CorsHeaders == <<ACAO, ACAM, ACAH>>

\* BaseHTTPRequestHandler.send_response: status line, Server and Date
send_response(code) ==
    [status |-> code,
     headers |-> << <<"Server", "SimpleHTTP/0.6 Python/3.11">>, <<"Date", "now">> >>]

\* BaseHTTPRequestHandler.send_header (HTTP/1.x)
send_header(h, keyword, value) ==
    [h EXCEPT !.headers = Append(@, <<keyword, value>>)]

\* BaseHTTPRequestHandler.end_headers: the buffer is written out as it stands
base_end_headers(h) == h

\* an end_headers that adds the CORS headers to successful responses only
end_headers_success_only(h) ==
    IF h.status = 200
    THEN base_end_headers(
             send_header(send_header(send_header(h, ACAO[1], ACAO[2]),
                                     ACAM[1], ACAM[2]), ACAH[1], ACAH[2]))
    ELSE base_end_headers(h)

\* an end_headers that emits Allow-Methods before Allow-Origin
end_headers_reordered(h) ==
    base_end_headers(
        send_header(send_header(send_header(h, ACAM[1], ACAM[2]),
                                ACAO[1], ACAO[2]), ACAH[1], ACAH[2]))

\* MyHTTPRequestHandler.end_headers
end_headers(h) ==
    base_end_headers(
        send_header(send_header(send_header(h, ACAO[1], ACAO[2]),
                                ACAM[1], ACAM[2]), ACAH[1], ACAH[2]))

\* what a handler has produced: hasF says a file object is left to copy
Reply(h, text, toCopy, f) ==
    [status |-> h.status, headers |-> h.headers, body |-> text,
     hasF |-> toCopy, f |-> f]

\* the HTML page of send_error
ErrorBody(code, message) ==
    "<h1>Error response</h1><p>Error code: " \o ToString(code)
        \o "</p><p>Message: " \o message \o ".</p>"

\* BaseHTTPRequestHandler.send_error
send_error(method, code, message) ==
    LET body == ErrorBody(code, message)
        h0 == send_header(send_response(code), "Connection", "close")
        h1 == send_header(h0, "Content-Type", "text/html;charset=utf-8")
        h2 == send_header(h1, "Content-Length", ToString(Len(body)))
    IN  Reply(end_headers(h2), IF method # "HEAD" THEN body ELSE "", FALSE, "")

\* SimpleHTTPRequestHandler.list_directory
list_directory(method, fspath) ==
    IF ~Stat(fspath).readable
    THEN send_error(method, 404, "No permission to list directory")
    ELSE LET listing == "<html>Directory listing for " \o fspath \o "</html>"
             h0 == send_header(send_response(200), "Content-type",
                               "text/html; charset=utf-8")
             h1 == send_header(h0, "Content-Length", ToString(Len(listing)))
         IN  Reply(end_headers(h1), "", TRUE, listing)

\* the index file send_head picks in a directory, "" when there is none
IndexOf(fspath) ==
    IF isfile(fspath \o "index.html") THEN fspath \o "index.html"
    ELSE IF isfile(fspath \o "index.htm") THEN fspath \o "index.htm"
    ELSE ""

\* the tail of send_head, once the path of the file to serve is settled
serve_file(table, req, fspath) ==
    LET ctype == guess_type(table, fspath)
    IN  IF EndsWith(fspath, "/")
        THEN send_error(req.method, 404, "File not found")
        ELSE IF ~CanOpen(fspath)
        THEN send_error(req.method, 404, "File not found")
        ELSE IF req.ims # 0 /\ Stat(fspath).mtime <= req.ims
        THEN Reply(end_headers(send_response(304)), "", FALSE, "")
        ELSE LET h0 == send_header(send_response(200), "Content-type", ctype)
                 h1 == send_header(h0, "Content-Length",
                                   ToString(Len(Stat(fspath).content)))
                 h2 == send_header(h1, "Last-Modified",
                                   ToString(Stat(fspath).mtime))
             IN  Reply(end_headers(h2), "", TRUE, Stat(fspath).content)

\* SimpleHTTPRequestHandler.send_head
send_head(table, req) ==
    LET fspath == translate_path(req.path)
    IN  IF isdir(fspath)
        THEN IF ~EndsWith(req.path, "/")
             THEN LET h0 == send_header(send_response(301), "Location",
                                        req.path \o "/")
                      h1 == send_header(h0, "Content-Length", "0")
                  IN  Reply(end_headers(h1), "", FALSE, "")
             ELSE IF IndexOf(fspath) # ""
                  THEN serve_file(table, req, IndexOf(fspath))
                  ELSE list_directory(req.method, fspath)
        ELSE serve_file(table, req, fspath)

\* handle_one_request up to the point the headers are written: do_GET and
\* do_HEAD call send_head (do_HEAD closes the file at once), any other
\* method has no do_ method and gets 501
respond(table, req) ==
    IF req.method = "GET" THEN send_head(table, req)
    ELSE IF req.method = "HEAD"
         THEN [send_head(table, req) EXCEPT !.hasF = FALSE, !.f = ""]
    ELSE send_error(req.method, 501,
                    "Unsupported method ('" \o req.method \o "')")

(***************************************************************************)
(* State.                                                                  *)
(***************************************************************************)
VARIABLES
    rootExists,   \* the environment: ebook_dir can be entered
    portFree,     \* the environment: port 8000 can be bound
    mimeTable,    \* the environment: the platform's mimetypes table
    pc,           \* position of the main thread
    stdout,       \* text written to standard output
    stderr,       \* kinds of text written to standard error
    exitCode,     \* exit status, -1 while the process runs
    sock,         \* listening socket: "none", "listening", "closed"
    bindAttempts, \* TCPServer constructions
    sigint,       \* where an interrupt arrived, "none" before
    backlog,      \* connections waiting in the listen queue, oldest first
    nextConn,     \* connections that have arrived
    started,      \* connections accepted, in order
    handlers,     \* request handlers in flight, by connection
    served,       \* requests handled to completion
    failed,       \* requests that failed (4xx, 5xx or abandoned)
    gpath,        \* GuessSpec: the path given to guess_type
    gtype         \* GuessSpec: its result, "" before the call

vars == <<rootExists, portFree, mimeTable, pc, stdout, stderr, exitCode, sock,
          bindAttempts, sigint, backlog, nextConn, started, handlers, served,
          failed, gpath, gtype>>

envVars == <<rootExists, portFree, mimeTable>>
guessVars == <<gpath, gtype>>
connVars == <<backlog, nextConn, started, handlers, served, failed>>

\* print(text): the text and a newline
print(out, text) == out \o text \o "\n"

\* the lines of terminated text
RECURSIVE Lines(_)
Lines(text) ==
    IF text = "" THEN <<>>
    ELSE LET nl == CHOOSE i \in 1..Len(text) :
                       /\ CharAt(text, i) = "\n"
                       /\ \A j \in 1..(i - 1) : CharAt(text, j) # "\n"
         IN  <<SubSeq(text, 1, nl - 1)>> \o Lines(SubSeq(text, nl + 1, Len(text)))

StartupPcs == {"chdir", "print1", "print2", "print3", "print4"}
LoopPcs == {"serving", "handling"}

\* a handler object as finish_request constructs it
NewHandler ==
    [hpc |-> "parse", request |-> NoRequest, status |-> 0, headers |-> <<>>,
     body |-> "", hasF |-> FALSE, f |-> ""]

Init ==
    /\ rootExists \in BOOLEAN
    /\ portFree \in BOOLEAN
    /\ mimeTable \in MimeTables
    /\ pc = "chdir"
    /\ stdout = ""
    /\ stderr = {}
    /\ exitCode = -1
    /\ sock = "none"
    /\ bindAttempts = 0
    /\ sigint = "none"
    /\ backlog = <<>>
    /\ nextConn = 0
    /\ started = <<>>
    /\ handlers = <<>>
    /\ served = 0
    /\ failed = 0
    /\ gpath = ""
    /\ gtype = ""

(***************************************************************************)
(* Startup: lines 14-15 and 37-43.                                         *)
(***************************************************************************)
\* an exception nothing catches: traceback on stderr, exit status 1
Crash ==
    /\ stderr' = stderr \cup {"traceback"}
    /\ exitCode' = 1
    /\ pc' = "exited"

\* os.chdir(ebook_dir)
Chdir ==
    /\ pc = "chdir"
    /\ IF rootExists
       THEN /\ pc' = "print1"
            /\ UNCHANGED <<stderr, exitCode>>
       ELSE Crash
    /\ UNCHANGED <<envVars, stdout, sock, bindAttempts, sigint, connVars, guessVars>>

PrintLine(at, text, next) ==
    /\ pc = at
    /\ stdout' = print(stdout, text)
    /\ pc' = next
    /\ UNCHANGED <<envVars, stderr, exitCode, sock, bindAttempts, sigint,
                   connVars, guessVars>>

PrintStarting ==
    PrintLine("print1", "Starting FASM eBook server on port " \o ToString(PORT),
              "print2")

PrintServingFrom ==
    PrintLine("print2", "Serving from: " \o ebook_dir, "print3")

PrintOpenBrowser ==
    PrintLine("print3", "Open your browser to: http://localhost:" \o ToString(PORT),
              "print4")

PrintPressCtrlC ==
    PrintLine("print4", "Press Ctrl+C to stop the server", "bind")

\* a startup that tries the port again when it is taken
BindRetrying ==
    /\ pc = "bind"
    /\ bindAttempts' = bindAttempts + 1
    /\ IF portFree
       THEN /\ sock' = "listening"
            /\ pc' = "serving"
            /\ UNCHANGED <<stderr, exitCode>>
       ELSE IF bindAttempts < 2
       THEN UNCHANGED <<sock, pc, stderr, exitCode>>
       ELSE /\ sock' = "closed"
            /\ Crash
    /\ UNCHANGED <<envVars, stdout, sigint, connVars, guessVars>>

\* socketserver.TCPServer(("", PORT), MyHTTPRequestHandler): an OSError from
\* bind is no KeyboardInterrupt, so nothing catches it
Bind ==
    /\ pc = "bind"
    /\ bindAttempts' = bindAttempts + 1
    /\ IF portFree
       THEN /\ sock' = "listening"
            /\ pc' = "serving"
            /\ UNCHANGED <<stderr, exitCode>>
       ELSE /\ sock' = "closed"
            /\ Crash
    /\ UNCHANGED <<envVars, stdout, sigint, connVars, guessVars>>

(***************************************************************************)
(* The serving loop: httpd.serve_forever(), line 44.                       *)
(***************************************************************************)
\* a client connects; the kernel queues the connection
Arrive ==
    /\ sock = "listening"
    /\ nextConn < MaxConns
    /\ nextConn' = nextConn + 1
    /\ backlog' = Append(backlog, nextConn + 1)
    /\ UNCHANGED <<envVars, pc, stdout, stderr, exitCode, sock, bindAttempts,
                   sigint, started, handlers, served, failed, guessVars>>

\* a server that hands each connection to a thread and goes on accepting
AcceptThreaded ==
    /\ pc \in LoopPcs
    /\ backlog # <<>>
    /\ handlers' = (Head(backlog) :> NewHandler) @@ handlers
    /\ started' = Append(started, Head(backlog))
    /\ backlog' = Tail(backlog)
    /\ pc' = "handling"
    /\ UNCHANGED <<envVars, stdout, stderr, exitCode, sock, bindAttempts, sigint,
                   nextConn, served, failed, guessVars>>

\* _handle_request_noblock: the loop accepts the oldest connection and runs
\* its handler in the main thread
Accept ==
    /\ pc = "serving"
    /\ backlog # <<>>
    /\ handlers' = (Head(backlog) :> NewHandler) @@ handlers
    /\ started' = Append(started, Head(backlog))
    /\ backlog' = Tail(backlog)
    /\ pc' = "handling"
    /\ UNCHANGED <<envVars, stdout, stderr, exitCode, sock, bindAttempts, sigint,
                   nextConn, served, failed, guessVars>>

\* handle_one_request: read the request, send status and headers (and the
\* error page, for an error)
HandleOneRequest(c) ==
    /\ pc \in LoopPcs
    /\ c \in DOMAIN handlers
    /\ handlers[c].hpc = "parse"
    /\ \E req \in Requests :
          LET r == respond(mimeTable, req)
          IN  handlers' = [handlers EXCEPT ![c] =
                  [hpc |-> IF r.hasF THEN "copy" ELSE "done", request |-> req,
                   status |-> r.status, headers |-> r.headers, body |-> r.body,
                   hasF |-> r.hasF, f |-> r.f]]
    /\ stderr' = stderr \cup {"request-log"}
    /\ UNCHANGED <<envVars, pc, stdout, exitCode, sock, bindAttempts, sigint,
                   backlog, nextConn, started, served, failed, guessVars>>

\* a do_GET that closes the file without copying it
CopyFileNoBody(c) ==
    /\ pc \in LoopPcs
    /\ c \in DOMAIN handlers
    /\ handlers[c].hpc = "copy"
    /\ handlers' = [handlers EXCEPT ![c].hpc = "done"]
    /\ UNCHANGED <<envVars, pc, stdout, stderr, exitCode, sock, bindAttempts,
                   sigint, backlog, nextConn, started, served, failed, guessVars>>

\* do_GET: copyfile(f, self.wfile)
CopyFile(c) ==
    /\ pc \in LoopPcs
    /\ c \in DOMAIN handlers
    /\ handlers[c].hpc = "copy"
    /\ handlers' = [handlers EXCEPT ![c].hpc = "done", ![c].body = handlers[c].f]
    /\ UNCHANGED <<envVars, pc, stdout, stderr, exitCode, sock, bindAttempts,
                   sigint, backlog, nextConn, started, served, failed, guessVars>>

Without(fn, c) == [k \in DOMAIN fn \ {c} |-> fn[k]]

\* a finished request that stops the process
FinishRequestFatal(c) ==
    /\ pc \in LoopPcs
    /\ c \in DOMAIN handlers
    /\ handlers[c].hpc = "done"
    /\ handlers' = Without(handlers, c)
    /\ served' = served + 1
    /\ failed' = IF handlers[c].status >= 400 THEN failed + 1 ELSE failed
    /\ IF handlers[c].status >= 400
       THEN /\ Crash
            /\ sock' = "closed"
       ELSE /\ pc' = "serving"
            /\ UNCHANGED <<stderr, exitCode, sock>>
    /\ UNCHANGED <<envVars, stdout, bindAttempts, sigint, backlog, nextConn,
                   started, guessVars>>

\* the handler returns: shutdown_request, and the loop goes on
FinishRequest(c) ==
    /\ pc \in LoopPcs
    /\ c \in DOMAIN handlers
    /\ handlers[c].hpc = "done"
    /\ handlers' = Without(handlers, c)
    /\ served' = served + 1
    /\ failed' = IF handlers[c].status >= 400 THEN failed + 1 ELSE failed
    /\ pc' = "serving"
    /\ UNCHANGED <<envVars, stdout, stderr, exitCode, sock, bindAttempts, sigint,
                   backlog, nextConn, started, guessVars>>

\* the client goes away: before sending a request (readline returns nothing
\* and the handler returns), or while the body is written (the write raises,
\* handle_error prints the exception, shutdown_request closes the connection)
Abandon(c) ==
    /\ pc \in LoopPcs
    /\ c \in DOMAIN handlers
    /\ handlers[c].hpc \in {"parse", "copy"}
    /\ stderr' = IF handlers[c].hpc = "copy"
                 THEN stderr \cup {"exception"} ELSE stderr
    /\ handlers' = Without(handlers, c)
    /\ failed' = failed + 1
    /\ pc' = "serving"
    /\ UNCHANGED <<envVars, stdout, exitCode, sock, bindAttempts, sigint,
                   backlog, nextConn, started, served, guessVars>>

(***************************************************************************)
(* Interrupt and shutdown: lines 42-47.                                    *)
(***************************************************************************)
\* SIGINT raises KeyboardInterrupt in the main thread.  Before the try
\* statement nothing catches it; inside it the handler of line 45 does, after
\* the with statement has been left.
Interrupt ==
    /\ sigint = "none"
    /\ pc \in StartupPcs \cup {"bind"} \cup LoopPcs
    /\ IF pc \in StartupPcs
       THEN /\ sigint' = "startup"
            /\ stderr' = stderr \cup {"traceback"}
            /\ exitCode' = 130
            /\ pc' = "exited"
            /\ UNCHANGED handlers
       ELSE /\ sigint' = IF pc = "handling" THEN "handling"
                         ELSE IF pc = "serving" THEN "idle" ELSE "bind"
            /\ pc' = IF pc = "bind" THEN "except" ELSE "closing"
            /\ handlers' = <<>>
            /\ UNCHANGED <<stderr, exitCode>>
    /\ UNCHANGED <<envVars, stdout, sock, bindAttempts, backlog, nextConn,
                   started, served, failed, guessVars>>

\* leaving the with statement: TCPServer.__exit__ calls server_close
ServerClose ==
    /\ pc = "closing"
    /\ sock' = "closed"
    /\ backlog' = <<>>
    /\ pc' = "except"
    /\ UNCHANGED <<envVars, stdout, stderr, exitCode, bindAttempts, sigint,
                   nextConn, started, handlers, served, failed, guessVars>>

\* an interrupt handler that exits without a message
PrintStoppedSilent ==
    /\ pc = "except"
    /\ pc' = "sysexit"
    /\ UNCHANGED <<envVars, stdout, stderr, exitCode, sock, bindAttempts, sigint,
                   connVars, guessVars>>

\* print("\nServer stopped.")
PrintStopped ==
    PrintLine("except", "\nServer stopped.", "sysexit")

\* a handler that reports failure
SysExitFailure ==
    /\ pc = "sysexit"
    /\ exitCode' = 1
    /\ pc' = "exited"
    /\ UNCHANGED <<envVars, stdout, stderr, sock, bindAttempts, sigint, connVars,
                   guessVars>>

\* sys.exit(0)
SysExit ==
    /\ pc = "sysexit"
    /\ exitCode' = 0
    /\ pc' = "exited"
    /\ UNCHANGED <<envVars, stdout, stderr, sock, bindAttempts, sigint, connVars,
                   guessVars>>

Conns == 1..MaxConns

Next ==
    \/ Chdir
    \/ PrintStarting
    \/ PrintServingFrom
    \/ PrintOpenBrowser
    \/ PrintPressCtrlC
    \/ Bind
    \/ Arrive
    \/ Accept
    \/ \E c \in Conns : HandleOneRequest(c)
    \/ \E c \in Conns : CopyFile(c)
    \/ \E c \in Conns : FinishRequest(c)
    \/ \E c \in Conns : Abandon(c)
    \/ Interrupt
    \/ ServerClose
    \/ PrintStopped
    \/ SysExit

Spec == Init /\ [][Next]_vars

\* the interpreter keeps running the main thread wherever it does not wait
\* for a client; clients and signals are under no obligation
ProgramStep ==
    \/ Chdir
    \/ PrintStarting
    \/ PrintServingFrom
    \/ PrintOpenBrowser
    \/ PrintPressCtrlC
    \/ Bind
    \/ Accept
    \/ \E c \in Conns : FinishRequest(c)
    \/ ServerClose
    \/ PrintStopped
    \/ SysExit

FairSpec == Init /\ [][Next]_vars /\ WF_vars(ProgramStep)

(***************************************************************************)
(* guess_type as a function of the path alone: GuessSpec draws a path and  *)
(* a platform table and calls it once.                                     *)
(***************************************************************************)
StemChars == {"a", ".", "/"}

RECURSIVE StringsUpTo(_)
StringsUpTo(n) ==
    IF n = 0 THEN {""}
    ELSE LET shorter == StringsUpTo(n - 1)
         IN  shorter \cup {s \o ch : s \in shorter, ch \in StemChars}

Suffixes ==
    {"", "md", "json", ".md", ".MD", ".Md", ".mdx", ".md/", ".json", ".JSON",
     ".jsonl", ".json.md", ".md.json", ".html", ".png", ".gz", ".txt"}

GuessPaths == {stem \o suffix : stem \in StringsUpTo(MaxStemLen), suffix \in Suffixes}

GuessInit ==
    /\ gpath \in GuessPaths
    /\ gtype = ""
    /\ mimeTable \in MimeTables
    /\ rootExists = TRUE
    /\ portFree = TRUE
    /\ pc = "chdir"
    /\ stdout = ""
    /\ stderr = {}
    /\ exitCode = -1
    /\ sock = "none"
    /\ bindAttempts = 0
    /\ sigint = "none"
    /\ backlog = <<>>
    /\ nextConn = 0
    /\ started = <<>>
    /\ handlers = <<>>
    /\ served = 0
    /\ failed = 0

\* self.guess_type(path)
Guess ==
    /\ gtype = ""
    /\ gtype' = guess_type(mimeTable, gpath)
    /\ UNCHANGED <<envVars, pc, stdout, stderr, exitCode, sock, bindAttempts,
                   sigint, connVars, gpath>>

GuessNext == Guess

GuessSpec == GuessInit /\ [][GuessNext]_vars

(***************************************************************************)
(* Vocabulary of the properties.                                           *)
(***************************************************************************)
\* handlers whose response is complete
DoneConns == {c \in DOMAIN handlers : handlers[c].hpc = "done"}
\* handlers that have finalized their headers
SentConns == {c \in DOMAIN handlers : handlers[c].hpc \in {"copy", "done"}}

\* header names compare without case; the lower-case form of the names the
\* handler emits is tabulated
EmittedNames ==
    {"Server", "Date", "Connection", "Content-Type", "Content-type",
     "Content-Length", "Last-Modified", "Location", ACAO[1], ACAM[1], ACAH[1]}
LowerName == [n \in EmittedNames |-> Lower(n)]
NameKey(n) == IF n \in EmittedNames THEN LowerName[n] ELSE Lower(n)

HeaderIndexes(hs, name) == {i \in 1..Len(hs) : NameKey(hs[i][1]) = NameKey(name)}
HeaderCount(hs, name) == Cardinality(HeaderIndexes(hs, name))
HasHeader(hs, name, value) == \E i \in HeaderIndexes(hs, name) : hs[i][2] = value
OnlyHeader(hs, name, value) ==
    /\ HeaderCount(hs, name) = 1
    /\ HasHeader(hs, name, value)

HasCors(hs) ==
    /\ HasHeader(hs, "Access-Control-Allow-Origin", "*")
    /\ HasHeader(hs, "Access-Control-Allow-Methods", "GET, POST, OPTIONS")
    /\ HasHeader(hs, "Access-Control-Allow-Headers", "Content-Type")

\* the request's method is one whose path the handler resolves
Retrieves(req) == req.method \in {"GET", "HEAD"}

\* the file a request path resolves to under the content root, "" when it
\* resolves to none: the path itself, or the index file of a directory
\* named with its trailing slash
ResolvedFile(path) ==
    IF path = "/" \/ (EndsWith(path, "/") /\ StripSlash(path) \in DOMAIN Tree
                      /\ Tree[StripSlash(path)].kind = "dir")
    THEN IF StripSlash(path) \o "/index.html" \in DOMAIN Tree
         THEN StripSlash(path) \o "/index.html"
         ELSE IF StripSlash(path) \o "/index.htm" \in DOMAIN Tree
         THEN StripSlash(path) \o "/index.htm"
         ELSE ""
    ELSE IF path \in DOMAIN Tree /\ Tree[path].kind = "file" THEN path ELSE ""

\* nothing exists where the path points: no file and no directory
ResolvesToNothing(path) ==
    /\ ResolvedFile(path) = ""
    /\ ~(StripSlash(path) \in DOMAIN Tree /\ Tree[StripSlash(path)].kind = "dir")

\* If-Modified-Since is present and not older than the file
NotModified(req, file) == req.ims # 0 /\ Tree[file].mtime <= req.ims

(***************************************************************************)
(* C1 *)
(***************************************************************************)
\* C1, as stated: every request whose path resolves to an existing file gets
\* status 200, the file's bytes as body, and the three CORS headers.
C1_EveryExistingFileIs200WithBody ==
    \A c \in DoneConns :
        LET h == handlers[c]
            file == ResolvedFile(h.request.path)
        IN  (Retrieves(h.request) /\ file # "") =>
                /\ h.status = 200
                /\ h.body = Tree[file].content
                /\ HasCors(h.headers)

\* C1, amended: a GET or HEAD request whose path resolves to an existing,
\* readable file, and whose If-Modified-Since (if any) is older than the
\* file, gets status 200 and the three CORS headers; the body of a GET is the
\* file's bytes, a HEAD has no body.
C1_ReadableFileIs200 ==
    \A c \in DoneConns :
        LET h == handlers[c]
            file == ResolvedFile(h.request.path)
        IN  (/\ Retrieves(h.request)
             /\ file # ""
             /\ Tree[file].readable
             /\ ~NotModified(h.request, file)) =>
                /\ h.status = 200
                /\ HasCors(h.headers)
                /\ h.body = IF h.request.method = "GET"
                            THEN Tree[file].content ELSE ""

\* a GET of README.md has been answered in full
C1_Witness ==
    \E c \in DoneConns :
        /\ handlers[c].request.method = "GET"
        /\ handlers[c].request.path = "/README.md"
        /\ handlers[c].request.ims = 1
        /\ handlers[c].status = 200
        /\ handlers[c].body = "# Hello"

C3_EveryMdResponseIsMarkdown ==
    \A c \in DoneConns :
        EndsWith(handlers[c].request.path, ".md") =>
            OnlyHeader(handlers[c].headers, "Content-Type", "text/markdown")

\* C3, amended: when a GET or HEAD request whose path ends in .md is answered
\* with the file (status 200), Content-Type is exactly text/markdown,
\* whatever the default lookup returns for the path; a missing or unreadable
\* .md path (404) carries text/html;charset=utf-8, and a directory (301) and
\* a not-modified file (304) carry no Content-Type.
C3_ServedMdIsMarkdown ==
    \A c \in DoneConns :
        LET h == handlers[c]
        IN  EndsWith(h.request.path, ".md") =>
                /\ h.status = 200 =>
                       OnlyHeader(h.headers, "Content-Type", "text/markdown")
                /\ h.status \in {404, 501} =>
                       OnlyHeader(h.headers, "Content-Type", "text/html;charset=utf-8")
                /\ h.status \in {301, 304} =>
                       HeaderCount(h.headers, "Content-Type") = 0
                /\ (/\ Retrieves(h.request)
                    /\ ResolvedFile(h.request.path) # ""
                    /\ Tree[ResolvedFile(h.request.path)].readable
                    /\ ~NotModified(h.request, ResolvedFile(h.request.path)))
                       => h.status = 200

\* README.md served on a platform whose default lookup does not know .md
C3_Witness ==
    \E c \in DoneConns :
        /\ handlers[c].request.path = "/README.md"
        /\ handlers[c].status = 200
        /\ DefaultGuessType(mimeTable, translate_path("/README.md"))
               = "application/octet-stream"
        /\ HasHeader(handlers[c].headers, "Content-type", "text/markdown")

(***************************************************************************)
(* C4 *)
(***************************************************************************)
\* C4: guess_type returns text/markdown for a path whose last three
\* characters are ".md", else application/json for a path whose last five
\* are ".json", else the default lookup's value for the path, unchanged.
C4_ThreeWayRule ==
    gtype # "" =>
        LET n == Len(gpath)
            isMd == n >= 3 /\ SubSeq(gpath, n - 2, n) = ".md"
            isJson == n >= 5 /\ SubSeq(gpath, n - 4, n) = ".json"
        IN  /\ isMd => gtype = "text/markdown"
            /\ (~isMd /\ isJson) => gtype = "application/json"
            /\ (~isMd /\ ~isJson) => gtype = DefaultGuessType(mimeTable, gpath)

\* an upper-case suffix took the fallback branch
C4_Witness ==
    /\ gpath = "a.MD"
    /\ mimeTable = LegacyTypes
    /\ gtype = "application/octet-stream"

(***************************************************************************)
(* C5 *)
(***************************************************************************)
ShutdownComplete ==
    /\ pc = "exited"
    /\ exitCode = 0
    /\ sock = "closed"
    /\ EndsWith(stdout, "Server stopped.\n")

NothingServedAfterInterrupt ==
    sigint \in {"idle", "handling"} =>
        (served' = served /\ started' = started /\ DOMAIN handlers' = {})

\* C5: an interrupt that arrives while the server runs (idle or inside a
\* request) leads to the shutdown message, the closed socket and exit
\* status 0, and no request is started or completed after it.
C5_InterruptStopsServer ==
    /\ (sigint \in {"idle", "handling"}) ~> ShutdownComplete
    /\ [][NothingServedAfterInterrupt]_vars

\* the interrupt arrived inside a request and the process has exited
C5_Witness ==
    /\ sigint = "handling"
    /\ ShutdownComplete
    /\ Len(started) > served + failed

(***************************************************************************)
(* C6 *)
(***************************************************************************)
\* the path names something that cannot be served: missing, or unreadable
Unservable(path) ==
    \/ ResolvesToNothing(path)
    \/ ResolvedFile(path) # "" /\ ~Tree[ResolvedFile(path)].readable
    \/ /\ ResolvedFile(path) = ""
       /\ EndsWith(path, "/")
       /\ StripSlash(path) \in DOMAIN Tree
       /\ ~Tree[StripSlash(path)].readable

\* C6: a request that fails (missing file, permission denied) is answered
\* with an HTTP error page and leaves the process in its serving loop; a
\* request handled after failures is answered as the same request is
\* answered by a server that has seen none.
C6_FailuresStayLocal ==
    /\ (failed > 0 /\ sigint = "none") =>
           /\ pc \in LoopPcs
           /\ exitCode = -1
           /\ sock = "listening"
    /\ \A c \in DoneConns :
           LET h == handlers[c]
               fresh == respond(mimeTable, h.request)
           IN  /\ (Retrieves(h.request) /\ Unservable(h.request.path)) =>
                      /\ h.status = 404
                      /\ HasHeader(h.headers, "Content-Type", "text/html;charset=utf-8")
               /\ h.status = fresh.status
               /\ h.headers = fresh.headers
               /\ h.body = IF fresh.hasF THEN fresh.f ELSE fresh.body

\* after failed requests, a later request has been served successfully
C6_Witness ==
    /\ failed >= 2
    /\ served >= 1
    /\ \E c \in DoneConns : handlers[c].status = 200 /\ handlers[c].body # ""

(***************************************************************************)
(* C7 *)
(***************************************************************************)
StartupFailed ==
    \/ ~rootExists /\ pc # "chdir" /\ sigint = "none"
    \/ ~portFree /\ bindAttempts > 0

\* C7: once os.chdir or the bind has failed, the process has exited with a
\* nonzero status and a traceback, has never listened, accepted or served,
\* and has constructed the server at most once.
C7_StartupFailureIsFatal ==
    StartupFailed =>
        /\ pc = "exited"
        /\ exitCode \notin {-1, 0}
        /\ "traceback" \in stderr
        /\ sock # "listening"
        /\ started = <<>>
        /\ served = 0
        /\ bindAttempts <= 1

\* the port was taken and the process is gone
C7_Witness ==
    /\ ~portFree
    /\ bindAttempts = 1
    /\ pc = "exited"
    /\ exitCode = 1

(***************************************************************************)
(* C8 *)
(***************************************************************************)
Banner3 ==
    <<"Starting FASM eBook server on port 8000",
      "Serving from: " \o ebook_dir,
      "Open your browser to: http://localhost:8000">>

Banner4 == Banner3 \o <<"Press Ctrl+C to stop the server">>

\* C8, as stated: a run stopped by an interrupt has written three startup
\* lines and one shutdown line.
C8_ThreeLinesThenOne ==
    (pc = "exited" /\ exitCode = 0) =>
        /\ Len(Lines(stdout)) = 4
        /\ SubSeq(Lines(stdout), 1, 3) = Banner3

\* C8, amended: a run stopped by an interrupt has written four startup lines
\* (port, content root, URL, how to stop), then an empty line and the one
\* shutdown line, and nothing else; the four startup lines are written before
\* the socket is bound, so before any request, and nothing is written while
\* requests are served.
C8_FourLinesThenShutdown ==
    /\ (pc = "exited" /\ exitCode = 0) =>
           Lines(stdout) = Banner4 \o <<"", "Server stopped.">>
    /\ (pc \in LoopPcs \/ started # <<>>) =>
           SubSeq(Lines(stdout), 1, 4) = Banner4
    /\ pc \in LoopPcs => Lines(stdout) = Banner4

\* a run that served requests and was then interrupted
C8_Witness ==
    /\ pc = "exited"
    /\ exitCode = 0
    /\ served > 0
    /\ Len(Lines(stdout)) = 6

(***************************************************************************)
(* C9 *)
(***************************************************************************)
\* C9: every response whose headers have been finalized ends with the three
\* CORS headers, in the order Allow-Origin, Allow-Methods, Allow-Headers,
\* after every other header, and has each of them exactly once.
C9_CorsLastOnceInOrder ==
    \A c \in SentConns :
        LET hs == handlers[c].headers
            n == Len(hs)
        IN  /\ n >= 3
            /\ SubSeq(hs, n - 2, n) = CorsHeaders
            /\ \A i \in 1..3 : HeaderCount(hs, CorsHeaders[i][1]) = 1

\* OPTIONS, advertised but not implemented, has been answered 501
C9_Witness ==
    \E c \in DoneConns :
        /\ handlers[c].request.method = "OPTIONS"
        /\ handlers[c].status = 501
        /\ Len(handlers[c].headers) = 8

(***************************************************************************)
(* C10 *)
(***************************************************************************)
\* C10: at most one handler is in flight; connections are accepted in the
\* order they arrived; and a connection is accepted only when every
\* connection accepted before it has left its handler.
C10_OneAtATimeInOrder ==
    /\ Cardinality(DOMAIN handlers) <= 1
    /\ \A i \in 1..Len(started) : started[i] = i
    /\ \A c \in DOMAIN handlers : c = started[Len(started)]
    /\ \A i \in 1..Len(backlog) : backlog[i] = Len(started) + i

\* two connections wait while an earlier one is being handled
C10_Witness ==
    /\ Cardinality(DOMAIN handlers) = 1
    /\ Len(backlog) = 2
    /\ \E c \in DOMAIN handlers : handlers[c].hpc = "copy"

=============================================================================
